---- MODULE Spec2Model ----
(***************************************************************************)
(* Certificate issuance and key-pair validation (support/certs/tls.go) and *)
(* worker security-group provisioning (CreateWorkerSecurityGroup).         *)
(*                                                                         *)
(* Go values are modelled as follows.                                      *)
(*   slice        [isNil : BOOLEAN, elems : sequence]; a nil slice and an  *)
(*                empty non-nil slice are different values, as for cmp.    *)
(*   error        the chain of messages from the outermost wrap to the     *)
(*                root cause; <<>> is the nil error.                       *)
(*   time         an integer number of clock ticks; a Duration is a        *)
(*                difference of two of them.                               *)
(*   RSA key      its modulus N (a small integer).                         *)
(*   PEM data     NoPEM (no block found) or one block [Type, Bytes], whose *)
(*                Bytes are the DER value they decode to.                  *)
(***************************************************************************)
EXTENDS Integers, Sequences, FiniteSets, TLC

VARIABLES
    now,        \* the wall clock read by time.Now / time.Until
    call,       \* the last issuance call: its name and arguments
    key,        \* the private key that call returned (NoKey: nil)
    cert,       \* the certificate that call returned (NoCert: nil)
    err,        \* the error that call returned (<<>>: nil)
    vin,        \* the arguments of ValidateKeyPair
    vout,       \* what ValidateKeyPair returned for vin
    cloud,      \* the worker security group as the EC2 API holds it
    sgcall,     \* the last CreateWorkerSecurityGroup call: what the API answered
    sgout       \* what that call returned and which API calls it made

vars == <<now, call, key, cert, err, vin, vout, cloud, sgcall, sgout>>

certVars == <<call, key, cert, err>>
validateVars == <<vin, vout>>
sgVars == <<cloud, sgcall, sgout>>

----------------------------------------------------------------------------
(* Bounds of the model.                                                    *)

MaxLen == 2          \* longest DNS-name list
MaxTime == 2         \* last clock tick
MaxDuration == 1     \* largest minimumRemainingValidity
MaxValidity == 2     \* largest Validity of an issuance configuration

----------------------------------------------------------------------------
(* Slices.                                                                 *)

NilSlice == [isNil |-> TRUE, elems |-> <<>>]

Slice(s) == [isNil |-> FALSE, elems |-> s]

SeqsUpTo(S, n) == UNION {[1..k -> S] : k \in 0..n}

\* every slice over S of length at most n
Slices(S, n) == {NilSlice} \cup {Slice(s) : s \in SeqsUpTo(S, n)}

\* what a slice is after DER encoding and parsing: an empty list is encoded
\* as no extension, and parsed back as nil
Parsed(x) == IF Len(x.elems) = 0 THEN NilSlice ELSE Slice(x.elems)

ParsedSlices(S, n) == {Parsed(x) : x \in Slices(S, n)}

----------------------------------------------------------------------------
(* The values of the fields.                                               *)

Names == {"a", "b"}

\* the order of < on the DNS names
NameRank == [n \in Names \cup {"ou"} |-> CASE n = "a" -> 1 [] n = "b" -> 2 [] OTHER -> 3]

\* x509.ExtKeyUsageServerAuth
ExtUsages == {1}

ExtRank == [u \in ExtUsages |-> u]

IPs == {"10.0.0.1"}

\* the order of bytes.Compare on the addresses
IPRank == [i \in IPs |-> 1]

\* x509.KeyUsageDigitalSignature, x509.KeyUsageCertSign
KeyUsageValues == {1, 32}

Moduli == {1, 2}

NoKey == [alg |-> "nil", N |-> 0]

NoCert == [alg |-> "nil"]

RSAKey(n) == [alg |-> "RSA", N |-> n]

\* key.Public()
Public(k) == [alg |-> k.alg, N |-> k.N]

Name(cn, ou) == [CommonName |-> cn, OrganizationalUnit |-> ou]

\* pkix.Name after DER encoding and parsing
ParsedName(n) == Name(n.CommonName, Parsed(n.OrganizationalUnit))

----------------------------------------------------------------------------
(* PEM and DER.                                                            *)

NoPEM == [Type |-> "", Bytes |-> [kind |-> "none"]]

JunkDER == [kind |-> "junk"]

MarshalPKCS1PrivateKey(k) == [kind |-> "PKCS1", key |-> k]

\* cert.Raw
Raw(c) == [kind |-> "X509", cert |-> c]

EncodeToMemory(type, bytes) == [Type |-> type, Bytes |-> bytes]

PrivateKeyToPem(k) == EncodeToMemory("RSA PRIVATE KEY", MarshalPKCS1PrivateKey(k))

CertToPem(c) == EncodeToMemory("CERTIFICATE", Raw(c))

ParsePKCS1PrivateKey(der) ==
    IF der.kind = "PKCS1"
    THEN [key |-> der.key, err |-> <<>>]
    ELSE [key |-> NoKey, err |-> <<"x509: failed to parse private key">>]

ParseCertificate(der) ==
    IF der.kind = "X509"
    THEN [cert |-> der.cert, err |-> <<>>]
    ELSE [cert |-> NoCert, err |-> <<"x509: malformed certificate">>]

\* the block type is not looked at: only the bytes decide
PemToPrivateKey(data) ==
    IF data = NoPEM
    THEN [key |-> NoKey, err |-> <<"could not find a PEM block in the private key">>]
    ELSE ParsePKCS1PrivateKey(data.Bytes)

PemToCertificate(data) ==
    IF data = NoPEM
    THEN [cert |-> NoCert, err |-> <<"could not find a PEM block in the certificate">>]
    ELSE ParseCertificate(data.Bytes)

parsePemKeypairNoModulusCheck(pemKey, certificate) ==
    LET k == PemToPrivateKey(pemKey)
        c == PemToCertificate(certificate)
        fail(e) == [privKey |-> NoKey, cert |-> NoCert, err |-> e]
    IN  IF k.err # <<>> THEN fail(k.err)
        ELSE IF c.err # <<>> THEN fail(c.err)
        ELSE IF c.cert.alg # "RSA"
             THEN fail(<<"certificate does not have a RSA public key">>)
        ELSE [privKey |-> k.key, cert |-> c.cert, err |-> <<>>]

parsePemKeypair(pemKey, certificate) ==
    LET k == PemToPrivateKey(pemKey)
        c == PemToCertificate(certificate)
        fail(e) == [privKey |-> NoKey, cert |-> NoCert, err |-> e]
    IN  IF k.err # <<>> THEN fail(k.err)
        ELSE IF c.err # <<>> THEN fail(c.err)
        ELSE IF c.cert.alg # "RSA"
             THEN fail(<<"certificate does not have a RSA public key">>)
        ELSE IF c.cert.N # k.key.N
             THEN fail(<<"private key does not match certificate">>)
        ELSE [privKey |-> k.key, cert |-> c.cert, err |-> <<>>]

----------------------------------------------------------------------------
(* cmp.Diff with cmpopts.SortSlices: TRUE when the diff is not empty.      *)

IsSorted(s, rank) == \A i \in 1..(Len(s) - 1) : ~(rank[s[i + 1]] < rank[s[i]])

RECURSIVE Insert(_, _, _)
Insert(e, s, rank) ==
    IF s = <<>> THEN <<e>>
    ELSE IF rank[e] < rank[Head(s)] THEN <<e>> \o s
    ELSE <<Head(s)>> \o Insert(e, Tail(s), rank)

\* sort.SliceStable on a copy
RECURSIVE SortSlice(_, _)
SortSlice(s, rank) ==
    IF s = <<>> THEN <<>>
    ELSE LET n == Len(s) IN Insert(s[n], SortSlice(SubSeq(s, 1, n - 1), rank), rank)

\* the slices are sorted before they are compared only if one is longer
\* than one element and one of them is not sorted already
SortSlicesFilter(x, y, rank) ==
    /\ ~(Len(x.elems) <= 1 /\ Len(y.elems) <= 1)
    /\ (~IsSorted(x.elems, rank) \/ ~IsSorted(y.elems, rank))

\* cmp's comparison of two slices: a nil and a non-nil slice differ
SliceDiff(x, y) == x.isNil # y.isNil \/ x.elems # y.elems

cmpDiffUnsorted(x, y, rank) == SliceDiff(x, y)

cmpDiff(x, y, rank) ==
    IF SortSlicesFilter(x, y, rank)
    THEN SliceDiff(Slice(SortSlice(x.elems, rank)), Slice(SortSlice(y.elems, rank)))
    ELSE SliceDiff(x, y)

----------------------------------------------------------------------------
(* ValidateKeyPair.                                                        *)

dnsNamesDiff(c, cfg) == cmpDiff(c.DNSNames, cfg.DNSNames, NameRank)

extUsageDiff(c, cfg) == cmpDiff(c.ExtKeyUsage, cfg.ExtKeyUsages, ExtRank)

ipAddressDiff(c, cfg) == cmpDiff(c.IPAddresses, cfg.IPAddresses, IPRank)

keyUsageDiff(c, cfg) == c.KeyUsage # cfg.KeyUsages

subjectDiff(c, cfg) ==
    \/ c.Subject.CommonName # cfg.Subject.CommonName
    \/ cmpDiff(c.Subject.OrganizationalUnit, cfg.Subject.OrganizationalUnit, NameRank)

\* time.Until
Until(notAfter, t) == notAfter - t

remainingTooShortInclusive(c, minimumRemainingValidity, t) ==
    Until(c.NotAfter, t) <= minimumRemainingValidity

remainingTooShort(c, minimumRemainingValidity, t) ==
    Until(c.NotAfter, t) < minimumRemainingValidity

isCADiff(c, cfg) == c.IsCA # cfg.IsCA

If(b, e) == IF b THEN <<e>> ELSE <<>>

\* the errors appended to errs, in the order of the checks
fieldErrors(c, cfg, minimumRemainingValidity, t) ==
    If(dnsNamesDiff(c, cfg), "dns names")
    \o If(extUsageDiff(c, cfg), "extended key usages")
    \o If(ipAddressDiff(c, cfg), "ip addresses")
    \o If(keyUsageDiff(c, cfg), "key usage")
    \o If(subjectDiff(c, cfg), "subject")
    \o If(remainingTooShort(c, minimumRemainingValidity, t), "remaining validity")
    \o If(isCADiff(c, cfg), "isCA")

ValidateKeyPairFirstErrorOnly(pemKey, pemCertificate, cfg, minimumRemainingValidity, t) ==
    LET p == parsePemKeypair(pemKey, pemCertificate)
        errs == fieldErrors(p.cert, cfg, minimumRemainingValidity, t)
    IN  IF p.err # <<>>
        THEN [err |-> <<"failed to parse keypair">> \o p.err, errs |-> <<>>]
        ELSE [err |-> <<>>, errs |-> IF errs = <<>> THEN <<>> ELSE <<Head(errs)>>]

\* err is the parse failure, errs the content of the aggregate; the error
\* returned is nil when both are empty
ValidateKeyPair(pemKey, pemCertificate, cfg, minimumRemainingValidity, t) ==
    LET p == parsePemKeypair(pemKey, pemCertificate)
    IN  IF p.err # <<>>
        THEN [err |-> <<"failed to parse keypair">> \o p.err, errs |-> <<>>]
        ELSE [err |-> <<>>,
              errs |-> fieldErrors(p.cert, cfg, minimumRemainingValidity, t)]

----------------------------------------------------------------------------
(* CreateWorkerSecurityGroup.  The EC2 API is the environment: cloud is    *)
(* the worker security group it holds, and the answers of its calls are    *)
(* inputs of the call.                                                     *)

duplicatePermissionErrorCode == "InvalidPermission.Duplicate"

\* wait.Backoff.Steps: how often the new group is looked up
Steps == 10

MaxRuns == 2         \* calls of CreateWorkerSecurityGroup in a behaviour

NoGroup == [exists |-> FALSE, GroupId |-> "", OwnerId |-> "",
            IpPermissionsEgress |-> <<>>, IpPermissions |-> <<>>]

NoPeer == [GroupId |-> "", UserId |-> ""]

IpPermission(protocol, cidr, from, to, peer) ==
    [IpProtocol |-> protocol, CidrIp |-> cidr, FromPort |-> from, ToPort |-> to,
     UserIdGroupPair |-> peer]

\* a port is <<>> when it is not set
egressPermissions == <<IpPermission("-1", "0.0.0.0/0", <<>>, <<>>, NoPeer)>>

ingressPermissions(securityGroupID, sgUserID) ==
    LET self == [GroupId |-> securityGroupID, UserId |-> sgUserID]
    IN  << IpPermission("icmp", "DefaultCIDRBlock", <<-1>>, <<-1>>, NoPeer),
           IpPermission("tcp", "DefaultCIDRBlock", <<22>>, <<22>>, NoPeer),
           IpPermission("udp", "", <<4789>>, <<4789>>, self),
           IpPermission("udp", "", <<6081>>, <<6081>>, self),
           IpPermission("udp", "", <<500>>, <<500>>, self),
           IpPermission("udp", "", <<4500>>, <<4500>>, self),
           IpPermission("50", "", <<>>, <<>>, self),
           IpPermission("tcp", "", <<9000>>, <<9999>>, self),
           IpPermission("udp", "", <<9000>>, <<9999>>, self),
           IpPermission("tcp", "", <<10250>>, <<10250>>, self),
           IpPermission("tcp", "", <<30000>>, <<32767>>, self),
           IpPermission("udp", "", <<30000>>, <<32767>>, self) >>

\* a.String() == b.String()
samePermission(a, b) == a = b

includesPermission(list, permission) ==
    \E i \in DOMAIN list : samePermission(list[i], permission)

\* every desired permission, whether the group includes it or not
toAuthorizeAll(existing, desired) == desired

RECURSIVE toAuthorize(_, _)
\* the desired permissions the group does not include, in their order
toAuthorize(existing, desired) ==
    IF desired = <<>> THEN <<>>
    ELSE (IF includesPermission(existing, Head(desired)) THEN <<>> ELSE <<Head(desired)>>)
         \o toAuthorize(existing, Tail(desired))

\* what an API call answers: nil, an awserr.Error with a code, or an
\* error of another type
NilAnswer == [kind |-> "nil", code |-> ""]

AwsErr(code) == [kind |-> "awserr", code |-> code]

OtherErr == [kind |-> "error", code |-> ""]

Unused == [kind |-> "unused", code |-> ""]

AuthorizeAnswers ==
    {NilAnswer, AwsErr(duplicatePermissionErrorCode), AwsErr("UnauthorizedOperation"), OtherErr}

\* the authorize call's error makes CreateWorkerSecurityGroup return:
\* err != nil, errors.As(err, &awsErr) and awsErr.Code() is not the duplicate
authorizeErrorReturned(answer) ==
    /\ answer.kind # "nil"
    /\ answer.kind = "awserr"
    /\ answer.code # duplicatePermissionErrorCode

ApiCall(api, permissions) == [api |-> api, IpPermissions |-> permissions]

existingSecurityGroup(c, listAnswer) ==
    IF listAnswer # NilAnswer
    THEN [sg |-> NoGroup, err |-> <<"cannot list security groups", listAnswer.kind>>]
    ELSE [sg |-> c, err |-> <<>>]

\* retry.OnError: the group is looked up until it is found, Steps times at most
RECURSIVE Lookups(_)
Lookups(n) ==
    IF n = 0 THEN <<>> ELSE <<ApiCall("DescribeSecurityGroups", <<>>)>> \o Lookups(n - 1)

Outcome(id, e, calls, c) == [id |-> id, err |-> e, calls |-> calls, cloud |-> c]

NoAnswers == [run |-> 0, list |-> Unused, create |-> Unused, visibleAfter |-> 0,
              defaultEgress |-> FALSE, egress |-> Unused, ingress |-> Unused]

NoOutcome == Outcome("", <<"not called">>, <<>>, NoGroup)

\* from the authorization of the egress rules on: sg is the group found or
\* created, calls the API calls made so far
authorizeRules(sg, calls, a) ==
    LET securityGroupID == sg.GroupId
        sgUserID == sg.OwnerId
        egressToAuthorize == toAuthorize(sg.IpPermissionsEgress, egressPermissions)
        ingressToAuthorize ==
            toAuthorize(sg.IpPermissions, ingressPermissions(securityGroupID, sgUserID))
        egressCalled == Len(egressToAuthorize) > 0
        ingressCalled == Len(ingressToAuthorize) > 0
        calls1 == IF egressCalled
                  THEN Append(calls, ApiCall("AuthorizeSecurityGroupEgress", egressToAuthorize))
                  ELSE calls
        sg1 == IF egressCalled /\ a.egress = NilAnswer
               THEN [sg EXCEPT !.IpPermissionsEgress = @ \o egressToAuthorize]
               ELSE sg
        calls2 == IF ingressCalled
                  THEN Append(calls1, ApiCall("AuthorizeSecurityGroupIngress", ingressToAuthorize))
                  ELSE calls1
        sg2 == IF ingressCalled /\ a.ingress = NilAnswer
               THEN [sg1 EXCEPT !.IpPermissions = @ \o ingressToAuthorize]
               ELSE sg1
    IN  IF egressCalled /\ authorizeErrorReturned(a.egress)
        THEN Outcome("", <<"cannot apply security group egress permissions", a.egress.code>>,
                     calls1, sg1)
        ELSE IF ingressCalled /\ authorizeErrorReturned(a.ingress)
        THEN Outcome("", <<"cannot apply security group ingress permissions", a.ingress.code>>,
                     calls2, sg2)
        ELSE Outcome(securityGroupID, <<>>, calls2, sg2)

\* c: the group the API holds; a: the answers of the API calls
CreateWorkerSecurityGroup(c, a) ==
    LET found == existingSecurityGroup(c, a.list)
        listed == <<ApiCall("DescribeSecurityGroups", <<>>)>>
        created == [exists |-> TRUE, GroupId |-> "sg-1", OwnerId |-> "owner",
                    IpPermissionsEgress |-> IF a.defaultEgress THEN egressPermissions ELSE <<>>,
                    IpPermissions |-> <<>>]
        createCalled == Append(listed, ApiCall("CreateSecurityGroup", <<>>))
    IN  IF found.err # <<>> THEN Outcome("", found.err, listed, c)
        ELSE IF ~found.sg.exists
        THEN IF a.create # NilAnswer
             THEN Outcome("", <<"cannot create worker security group", a.create.kind>>,
                          createCalled, c)
             ELSE IF a.visibleAfter > Steps
             THEN Outcome("", <<"cannot find security group that was just created">>,
                          createCalled \o Lookups(Steps), created)
             ELSE authorizeRules(created, createCalled \o Lookups(a.visibleAfter), a)
        ELSE authorizeRules(found.sg, listed, a)

----------------------------------------------------------------------------
(* Configurations and certificates.                                        *)

CertCfg(dns, ext, ips, ku, subject, validity, isCA) ==
    [DNSNames |-> dns, ExtKeyUsages |-> ext, IPAddresses |-> ips, KeyUsages |-> ku,
     Subject |-> subject, Validity |-> validity, IsCA |-> isCA]

\* x509.Certificate, as ParseCertificate returns it: the public key (alg, N)
\* and the fields the functions read; the serial number, the version and
\* BasicConstraintsValid, which nothing reads back, are left out
Certificate(pub, dns, ext, ips, ku, subject, issuer, notBefore, notAfter, isCA, ski) ==
    [alg |-> pub.alg, N |-> pub.N, DNSNames |-> dns, ExtKeyUsage |-> ext,
     IPAddresses |-> ips, KeyUsage |-> ku, Subject |-> subject, Issuer |-> issuer,
     NotBefore |-> notBefore, NotAfter |-> notAfter, IsCA |-> isCA,
     SubjectKeyId |-> ski]

Durations == 0..MaxDuration

Times == 0..MaxTime

NotRun == [err |-> <<"not called">>, errs |-> <<>>]

NoInput == [pemKey |-> NoPEM, pemCertificate |-> NoPEM, cfg |-> "none",
            minimumRemainingValidity |-> 0]

NoCall == [op |-> "none"]

----------------------------------------------------------------------------
(* ValidateKeyPair on stored material: the key and the certificate come    *)
(* from a secret, the configuration and the minimum from the caller.       *)

StoredSubject == Name("cn", Slice(<<"ou">>))

\* the configurations a stored pair is checked against
ExpectedCfgs ==
    {CertCfg(dns, ext, ips, ku, Name(cn, Slice(<<"ou">>)), 1, isCA) :
        dns \in Slices(Names, MaxLen),
        ext \in {NilSlice, Slice(<<1>>)},
        ips \in {NilSlice, Slice(<<"10.0.0.1">>)},
        ku \in KeyUsageValues,
        cn \in {"cn", "other"},
        isCA \in BOOLEAN}

\* certificates of an RSA key with modulus 1, expiring one tick before the
\* last one
StoredCerts ==
    {Certificate(RSAKey(1), dns, Slice(<<1>>), Slice(<<"10.0.0.1">>), 1, StoredSubject,
                 StoredSubject, 0, MaxTime - 1, isCA, <<"ski", "RSA", 1>>) :
        dns \in ParsedSlices(Names, MaxLen), isCA \in BOOLEAN}

ForeignCert ==
    Certificate([alg |-> "ECDSA", N |-> 1], NilSlice, Slice(<<1>>), Slice(<<"10.0.0.1">>), 1,
                StoredSubject, StoredSubject, 0, MaxTime - 1, FALSE, <<"ski", "ECDSA", 1>>)

SomeStoredCert == CHOOSE c \in StoredCerts : c.DNSNames = NilSlice /\ ~c.IsCA

JunkPEM(type) == EncodeToMemory(type, JunkDER)

\* a matching pair, or one that fails to parse or to match
StoredPairs ==
    {<<PrivateKeyToPem(RSAKey(1)), CertToPem(c)>> : c \in StoredCerts}
    \cup {<<PrivateKeyToPem(RSAKey(2)), CertToPem(c)>> :
            c \in {d \in StoredCerts : d.DNSNames = NilSlice}}
    \cup {<<k, CertToPem(SomeStoredCert)>> : k \in {NoPEM, JunkPEM("RSA PRIVATE KEY")}}
    \cup {<<PrivateKeyToPem(RSAKey(1)), c>> :
            c \in {NoPEM, JunkPEM("CERTIFICATE"), CertToPem(ForeignCert)}}

ValidateInputs ==
    {[pemKey |-> p[1], pemCertificate |-> p[2], cfg |-> c, minimumRemainingValidity |-> m] :
        p \in StoredPairs, c \in ExpectedCfgs, m \in Durations}

InitValidate ==
    /\ now \in Times
    /\ vin \in ValidateInputs
    /\ vout = NotRun
    /\ call = NoCall /\ key = NoKey /\ cert = NoCert /\ err = <<>>
    /\ cloud = NoGroup /\ sgcall = NoAnswers /\ sgout = NoOutcome

CallValidateKeyPair ==
    /\ vout = NotRun
    /\ vout' = ValidateKeyPair(vin.pemKey, vin.pemCertificate, vin.cfg,
                               vin.minimumRemainingValidity, now)
    /\ UNCHANGED <<now, vin, certVars, sgVars>>

NextValidate == CallValidateKeyPair

SpecValidate == InitValidate /\ [][NextValidate]_vars

----------------------------------------------------------------------------
(* Issuance.  fault names the library call that fails during the call, if  *)
(* any; n is the modulus rsa.GenerateKey draws; t is the clock.            *)

\* the root cause a failing library call returns
Cause(fault) == <<fault>>

Wrap(e, message) == <<message>> \o e

PrivateKey(n, fault) ==
    IF fault = "rsa.GenerateKey"
    THEN [key |-> NoKey, err |-> Wrap(Cause(fault), "error generating RSA private key")]
    ELSE [key |-> RSAKey(n), err |-> <<>>]

\* sha1.Sum of the marshalled key: one identifier per public key
generateSubjectKeyID(pub, fault) ==
    CASE pub.alg = "RSA" ->
            IF fault = "asn1.Marshal"
            THEN [id |-> <<>>, err |-> Wrap(Cause(fault), "failed to Marshal ans1 public key")]
            ELSE [id |-> <<"ski", "RSA", pub.N>>, err |-> <<>>]
      [] pub.alg = "ECDSA" -> [id |-> <<"ski", "ECDSA", pub.N>>, err |-> <<>>]
      [] OTHER -> [id |-> <<>>, err |-> <<"only RSA and ECDSA public keys supported">>]

\* x509.CreateCertificate: the DER of the template's fields, signed by
\* parent; a list that is empty is left out, and so is nil when parsed
x509CreateCertificate(template, parent, pub) ==
    Raw(Certificate(pub, Parsed(template.DNSNames), Parsed(template.ExtKeyUsage),
                    Parsed(template.IPAddresses), template.KeyUsage,
                    ParsedName(template.Subject), ParsedName(parent.Subject),
                    template.NotBefore, template.NotAfter, template.IsCA,
                    template.SubjectKeyId))

\* x509.CreateCertificateRequest
x509CreateCertificateRequest(template, k) ==
    [kind |-> "CSR",
     csr |-> [Subject |-> ParsedName(template.Subject),
              DNSNames |-> Parsed(template.DNSNames),
              IPAddresses |-> Parsed(template.IPAddresses),
              PublicKey |-> Public(k)]]

ParseCertificateRequest(der) == der.csr

NoReturn(e) == [cert |-> NoCert, err |-> e]

SubjectUnsetBoth(cfg) ==
    cfg.Subject.CommonName = "" /\ Len(cfg.Subject.OrganizationalUnit.elems) = 0

\* len(cfg.Subject.CommonName) == 0 || len(cfg.Subject.OrganizationalUnit) == 0
SubjectUnset(cfg) ==
    cfg.Subject.CommonName = "" \/ Len(cfg.Subject.OrganizationalUnit.elems) = 0

\* the template of the self-signed certificate: DNSNames, ExtKeyUsage and
\* IPAddresses are not set and keep their zero value
selfSignedTemplate(cfg, t) ==
    [DNSNames |-> NilSlice, ExtKeyUsage |-> NilSlice, IPAddresses |-> NilSlice,
     IsCA |-> cfg.IsCA,
     KeyUsage |-> cfg.KeyUsages,
     NotAfter |-> t + cfg.Validity,
     NotBefore |-> t,
     Subject |-> cfg.Subject]

SelfSignedCertificate(cfg, k, t, fault) ==
    LET cert0 == selfSignedTemplate(cfg, t)
        pub == Public(k)
        ski == generateSubjectKeyID(pub, fault)
        certBytes == x509CreateCertificate(cert0 @@ [SubjectKeyId |-> ski.id],
                                           cert0, Public(k))
    IN  IF fault = "rand.Int" THEN NoReturn(Cause(fault))
        ELSE IF SubjectUnset(cfg)
             THEN NoReturn(<<"certification's subject is not set, or invalid">>)
        ELSE IF ski.err # <<>>
             THEN NoReturn(Wrap(ski.err, "failed to set subject key identifier"))
        ELSE IF fault = "x509.CreateCertificate"
             THEN NoReturn(Wrap(Cause(fault), "failed to create certificate"))
        ELSE IF fault = "x509.ParseCertificate" THEN NoReturn(Cause(fault))
        ELSE ParseCertificate(certBytes)

certTmplNotBeforeNow(cfg, csr, caCert, t) ==
    [DNSNames |-> csr.DNSNames,
     ExtKeyUsage |-> cfg.ExtKeyUsages,
     IPAddresses |-> csr.IPAddresses,
     KeyUsage |-> cfg.KeyUsages,
     NotAfter |-> t + cfg.Validity,
     NotBefore |-> t,
     Subject |-> csr.Subject,
     IsCA |-> cfg.IsCA]

certTmpl(cfg, csr, caCert, t) ==
    [DNSNames |-> csr.DNSNames,
     ExtKeyUsage |-> cfg.ExtKeyUsages,
     IPAddresses |-> csr.IPAddresses,
     KeyUsage |-> cfg.KeyUsages,
     NotAfter |-> t + cfg.Validity,
     NotBefore |-> caCert.NotBefore,
     Subject |-> csr.Subject,
     IsCA |-> cfg.IsCA]

subjectPublicKey(k, caCert) == Public(k)

\* pub := caCert.PublicKey.(*rsa.PublicKey): the key the identifier of the
\* issued certificate is computed from
signedPub(k, caCert) == [alg |-> caCert.alg, N |-> caCert.N]

signedCertificate(cfg, csr, k, caCert, caKey, t, fault) ==
    LET tmpl == certTmpl(cfg, csr, caCert, t)
        pub == signedPub(k, caCert)
        ski == generateSubjectKeyID(pub, fault)
        certBytes == x509CreateCertificate(tmpl @@ [SubjectKeyId |-> ski.id],
                                           caCert, Public(k))
    IN  IF fault = "rand.Int" THEN NoReturn(Cause(fault))
        ELSE IF ski.err # <<>>
             THEN NoReturn(Wrap(ski.err, "failed to set subject key identifier"))
        ELSE IF fault = "x509.CreateCertificate"
             THEN NoReturn(Wrap(Cause(fault), "failed to create x509 certificate"))
        ELSE IF fault = "x509.ParseCertificate" THEN NoReturn(Cause(fault))
        ELSE ParseCertificate(certBytes)

Failed(e) == [key |-> NoKey, cert |-> NoCert, err |-> e]

GenerateSelfSignedCertificate(cfg, n, t, fault) ==
    LET k == PrivateKey(n, fault)
        crt == SelfSignedCertificate(cfg, k.key, t, fault)
    IN  IF k.err # <<>> THEN Failed(Wrap(k.err, "failed to generate private key"))
        ELSE IF crt.err # <<>>
             THEN Failed(Wrap(crt.err, "failed to create self-signed certificate"))
        ELSE [key |-> k.key, cert |-> crt.cert, err |-> <<>>]

GenerateSignedCertificate(caKey, caCert, cfg, n, t, fault) ==
    LET k == PrivateKey(n, fault)
        csrTmpl == [Subject |-> cfg.Subject, DNSNames |-> cfg.DNSNames,
                    IPAddresses |-> cfg.IPAddresses]
        csrBytes == x509CreateCertificateRequest(csrTmpl, k.key)
        csr == ParseCertificateRequest(csrBytes)
        crt == signedCertificate(cfg, csr, k.key, caCert, caKey, t, fault)
    IN  IF k.err # <<>> THEN Failed(Wrap(k.err, "failed to generate private key"))
        ELSE IF fault = "x509.CreateCertificateRequest"
             THEN Failed(Wrap(Cause(fault), "failed to create certificate request"))
        ELSE IF fault = "x509.ParseCertificateRequest"
             THEN Failed(Wrap(Cause(fault), "error parsing x509 certificate request"))
        ELSE IF crt.err # <<>>
             THEN Failed(Wrap(crt.err, "failed to create a signed certificate"))
        ELSE [key |-> k.key, cert |-> crt.cert, err |-> <<>>]

----------------------------------------------------------------------------
(* The issuance calls, and the validation of what they returned against    *)
(* the configuration it was issued from.                                   *)

IssueCfgs ==
    {CertCfg(dns, ext, ips, ku, Name(cn, ou), validity, isCA) :
        dns \in {NilSlice, Slice(<<>>), Slice(<<"a">>)},
        ext \in {NilSlice, Slice(<<1>>)},
        ips \in {NilSlice, Slice(<<"10.0.0.1">>)},
        ku \in KeyUsageValues,
        cn \in {"", "cn"},
        ou \in {NilSlice, Slice(<<>>), Slice(<<"ou">>)},
        validity \in 1..MaxValidity,
        isCA \in BOOLEAN}

SelfSignedFaults ==
    {"none", "rsa.GenerateKey", "rand.Int", "asn1.Marshal", "x509.CreateCertificate",
     "x509.ParseCertificate"}

SignedFaults ==
    SelfSignedFaults \cup {"x509.CreateCertificateRequest", "x509.ParseCertificateRequest"}

CACfg == CertCfg(NilSlice, NilSlice, NilSlice, 32, Name("ca", Slice(<<"ou">>)), MaxTime + 1, TRUE)

\* the CA pairs a caller holds at time t: what self-signed issuance from
\* CACfg returned at some time up to t
CAPairs(t) ==
    {GenerateSelfSignedCertificate(CACfg, n, t0, "none") : n \in Moduli, t0 \in 0..t}

InitIssue ==
    /\ now = 0
    /\ call = NoCall /\ key = NoKey /\ cert = NoCert /\ err = <<>>
    /\ vin = NoInput /\ vout = NotRun
    /\ cloud = NoGroup /\ sgcall = NoAnswers /\ sgout = NoOutcome

Tick ==
    /\ now < MaxTime
    /\ now' = now + 1
    /\ UNCHANGED <<certVars, validateVars, sgVars>>

\* the library keeps nothing between calls: a behaviour is one call, at any
\* time, and the validation of what it returned, at any later time
Returned(r) ==
    /\ key' = r.key /\ cert' = r.cert /\ err' = r.err
    /\ vin' = NoInput /\ vout' = NotRun
    /\ UNCHANGED <<now, sgVars>>

CallGenerateSelfSignedCertificate ==
    /\ call = NoCall
    /\ \E cfg \in IssueCfgs, n \in Moduli, fault \in SelfSignedFaults :
        /\ call' = [op |-> "GenerateSelfSignedCertificate", cfg |-> cfg, fault |-> fault,
                    at |-> now, caKey |-> NoKey, caCert |-> NoCert]
        /\ Returned(GenerateSelfSignedCertificate(cfg, n, now, fault))

\* SelfSignedCertificate called with a key the caller holds
CallSelfSignedCertificate ==
    /\ call = NoCall
    /\ \E cfg \in IssueCfgs, n \in Moduli, fault \in SelfSignedFaults \ {"rsa.GenerateKey"} :
        LET r == SelfSignedCertificate(cfg, RSAKey(n), now, fault)
        IN  /\ call' = [op |-> "SelfSignedCertificate", cfg |-> cfg, fault |-> fault,
                        at |-> now, caKey |-> NoKey, caCert |-> NoCert]
            /\ Returned([key |-> IF r.err = <<>> THEN RSAKey(n) ELSE NoKey,
                         cert |-> r.cert, err |-> r.err])

CallGenerateSignedCertificate ==
    /\ call = NoCall
    /\ \E cfg \in IssueCfgs, n \in Moduli, fault \in SignedFaults, ca \in CAPairs(now) :
        /\ call' = [op |-> "GenerateSignedCertificate", cfg |-> cfg, fault |-> fault,
                    at |-> now, caKey |-> ca.key, caCert |-> ca.cert]
        /\ Returned(GenerateSignedCertificate(ca.key, ca.cert, cfg, n, now, fault))

\* the pair is PEM-encoded and validated against the configuration it was
\* issued from
ValidateIssued ==
    \E m \in Durations :
        /\ call # NoCall /\ err = <<>> /\ vout = NotRun
        /\ vin' = [pemKey |-> PrivateKeyToPem(key), pemCertificate |-> CertToPem(cert),
                   cfg |-> call.cfg, minimumRemainingValidity |-> m]
        /\ vout' = ValidateKeyPair(PrivateKeyToPem(key), CertToPem(cert), call.cfg, m, now)
        /\ UNCHANGED <<now, certVars, sgVars>>

NextIssue ==
    \/ Tick
    \/ CallGenerateSelfSignedCertificate
    \/ CallSelfSignedCertificate
    \/ CallGenerateSignedCertificate
    \/ ValidateIssued

SpecIssue == InitIssue /\ [][NextIssue]_vars

----------------------------------------------------------------------------
(* The calls of CreateWorkerSecurityGroup against one EC2 account.         *)

ExistingGroup(egress, k) ==
    [exists |-> TRUE, GroupId |-> "sg-0", OwnerId |-> "owner",
     IpPermissionsEgress |-> egress,
     IpPermissions |-> SubSeq(ingressPermissions("sg-0", "owner"), 1, k)]

\* no group, or a group that holds none, some or all of the permissions
InitialClouds ==
    {NoGroup} \cup {ExistingGroup(e, k) : e \in {<<>>, egressPermissions}, k \in {0, 1, 11, 12}}

Answers ==
    [list : {NilAnswer, OtherErr}, create : {NilAnswer, OtherErr},
     visibleAfter : {1, Steps + 1}, defaultEgress : BOOLEAN,
     egress : AuthorizeAnswers, ingress : AuthorizeAnswers]

Made(api, calls) == \E i \in DOMAIN calls : calls[i].api = api

\* the answers the call asked for; the others are left out
Asked(a, out) ==
    [run |-> sgcall.run + 1,
     list |-> a.list,
     create |-> IF Made("CreateSecurityGroup", out.calls) THEN a.create ELSE Unused,
     visibleAfter |-> IF Made("CreateSecurityGroup", out.calls) /\ a.create = NilAnswer
                      THEN a.visibleAfter ELSE 0,
     defaultEgress |-> Made("CreateSecurityGroup", out.calls) /\ a.create = NilAnswer
                       /\ a.defaultEgress,
     egress |-> IF Made("AuthorizeSecurityGroupEgress", out.calls) THEN a.egress ELSE Unused,
     ingress |-> IF Made("AuthorizeSecurityGroupIngress", out.calls) THEN a.ingress ELSE Unused]

InitSG ==
    /\ cloud \in InitialClouds
    /\ sgcall = NoAnswers /\ sgout = NoOutcome
    /\ now = 0
    /\ call = NoCall /\ key = NoKey /\ cert = NoCert /\ err = <<>>
    /\ vin = NoInput /\ vout = NotRun

CallCreateWorkerSecurityGroup ==
    /\ sgcall.run < MaxRuns
    /\ \E a \in Answers :
        LET out == CreateWorkerSecurityGroup(cloud, a)
        IN  /\ sgout' = out
            /\ sgcall' = Asked(a, out)
            /\ cloud' = out.cloud
    /\ UNCHANGED <<now, certVars, validateVars>>

NextSG == CallCreateWorkerSecurityGroup

SpecSG == InitSG /\ [][NextSG]_vars

----------------------------------------------------------------------------
(* Properties of ValidateKeyPair (SpecValidate).                           *)

Validated == vout # NotRun

\* the key and the certificate of vin parse, and their moduli are equal
PairMatches ==
    /\ vin.pemKey # NoPEM /\ vin.pemKey.Bytes.kind = "PKCS1"
    /\ vin.pemCertificate # NoPEM /\ vin.pemCertificate.Bytes.kind = "X509"
    /\ vin.pemCertificate.Bytes.cert.alg = "RSA"
    /\ vin.pemCertificate.Bytes.cert.N = vin.pemKey.Bytes.key.N

StoredCert == vin.pemCertificate.Bytes.cert

Occurrences(e, s) == Cardinality({i \in DOMAIN s : s[i] = e})

Elems(x) == {x.elems[i] : i \in DOMAIN x.elems}

\* the same elements the same number of times, and nil only with nil
SameList(x, y) ==
    /\ \A e \in Elems(x) \cup Elems(y) : Occurrences(e, x.elems) = Occurrences(e, y.elems)
    /\ x.isNil = y.isNil \/ x.elems # <<>>

FieldChecks == {"dns names", "extended key usages", "ip addresses", "key usage", "subject", "isCA"}

AllChecks == FieldChecks \cup {"remaining validity"}

\* what each check is to find, stated on the arguments
CheckFails(k) ==
    LET c == StoredCert
        cfg == vin.cfg
    IN  CASE k = "dns names" -> ~SameList(c.DNSNames, cfg.DNSNames)
          [] k = "extended key usages" -> ~SameList(c.ExtKeyUsage, cfg.ExtKeyUsages)
          [] k = "ip addresses" -> ~SameList(c.IPAddresses, cfg.IPAddresses)
          [] k = "key usage" -> c.KeyUsage # cfg.KeyUsages
          [] k = "subject" ->
                \/ c.Subject.CommonName # cfg.Subject.CommonName
                \/ ~SameList(c.Subject.OrganizationalUnit, cfg.Subject.OrganizationalUnit)
          [] k = "isCA" -> c.IsCA # cfg.IsCA
          [] OTHER -> c.NotAfter - now < vin.minimumRemainingValidity

ReturnsNil == vout.err = <<>> /\ vout.errs = <<>>

\* C1: once the pair has parsed and matched, the aggregate holds exactly one
\* error for each of the seven checks that fails and none for a check that
\* passes, so a certificate differing from the config in N fields yields at
\* least N complaints, and the call returns nil exactly when no check fails.
C1_CollectAll ==
    (Validated /\ PairMatches) =>
        /\ vout.err = <<>>
        /\ \A k \in AllChecks :
              Occurrences(k, vout.errs) = IF CheckFails(k) THEN 1 ELSE 0
        /\ \A i \in DOMAIN vout.errs : vout.errs[i] \in AllChecks
        /\ Len(vout.errs) >= Cardinality({k \in FieldChecks : CheckFails(k)})
        /\ ReturnsNil <=> \A k \in AllChecks : ~CheckFails(k)

\* a call in which all seven checks fail and seven errors come back
C1_Witness ==
    /\ Validated /\ PairMatches
    /\ \A k \in AllChecks : CheckFails(k)
    /\ Len(vout.errs) = 7

\* C3: a key whose modulus differs from the certificate's yields the single
\* mismatch error, a malformed key or certificate a single parse error, and
\* in both cases no field, validity or IsCA finding, whatever the config.
C3_MismatchIsFatal ==
    (Validated /\ ~PairMatches) =>
        /\ vout.errs = <<>>
        /\ Len(vout.err) = 2
        /\ vout.err[1] = "failed to parse keypair"
        /\ (/\ vin.pemKey # NoPEM /\ vin.pemKey.Bytes.kind = "PKCS1"
            /\ vin.pemCertificate # NoPEM /\ vin.pemCertificate.Bytes.kind = "X509"
            /\ vin.pemCertificate.Bytes.cert.alg = "RSA")
           => vout.err[2] = "private key does not match certificate"

\* a mismatched pair whose certificate differs from the config in a field
C3_Witness ==
    /\ Validated
    /\ vin.pemKey = PrivateKeyToPem(RSAKey(2))
    /\ vin.pemCertificate.Bytes.kind = "X509"
    /\ StoredCert.N = 1
    /\ StoredCert.KeyUsage # vin.cfg.KeyUsages
    /\ StoredCert.IsCA # vin.cfg.IsCA
    /\ vout.err = <<"failed to parse keypair", "private key does not match certificate">>

\* C4: a remaining-validity error is reported exactly when
\* now > notAfter - minimumRemainingValidity.
C4_RemainingValidity ==
    (Validated /\ PairMatches) =>
        (Occurrences("remaining validity", vout.errs) = 1
            <=> now > StoredCert.NotAfter - vin.minimumRemainingValidity)

\* the boundary: now = notAfter - minimumRemainingValidity with a minimum
\* above zero, and no remaining-validity error
C4_Witness ==
    /\ Validated /\ PairMatches
    /\ vin.minimumRemainingValidity > 0
    /\ now = StoredCert.NotAfter - vin.minimumRemainingValidity
    /\ Occurrences("remaining validity", vout.errs) = 0

----------------------------------------------------------------------------
(* Properties of issuance (SpecIssue).                                     *)

SelfSignedCall == call.op \in {"GenerateSelfSignedCertificate", "SelfSignedCertificate"}

SignedCall == call.op = "GenerateSignedCertificate"

Issued == call # NoCall /\ err = <<>>

\* C2: the pair GenerateSelfSignedCertificate or GenerateSignedCertificate
\* produced from cfg, PEM-encoded and validated at once against the same cfg
\* with a minimum remaining validity of zero, is reported valid.
C2_IssuedPairValidates ==
    (/\ Validated
     /\ call.op \in {"GenerateSelfSignedCertificate", "GenerateSignedCertificate"}
     /\ vin.cfg = call.cfg
     /\ vin.minimumRemainingValidity = 0
     /\ now = call.at)
        => ReturnsNil

\* C5: SelfSignedCertificate fails with the invalid-subject error and returns
\* no certificate if the common name or the organizational-unit list is
\* empty (the serial number having been drawn), and otherwise, when the
\* library calls it makes succeed, returns a certificate whose issuer equals
\* its subject.
C5_SubjectPrecondition ==
    (call # NoCall /\ call.op = "SelfSignedCertificate") =>
        IF \/ call.cfg.Subject.CommonName = ""
           \/ call.cfg.Subject.OrganizationalUnit.elems = <<>>
        THEN call.fault # "rand.Int" =>
                /\ err = <<"certification's subject is not set, or invalid">>
                /\ cert = NoCert
        ELSE call.fault = "none" =>
                /\ err = <<>>
                /\ cert # NoCert
                /\ cert.Issuer = cert.Subject
                /\ cert.Subject.CommonName = call.cfg.Subject.CommonName

\* a call with a common name and no organizational unit, refused
C5_Witness ==
    /\ call # NoCall /\ call.op = "SelfSignedCertificate" /\ call.fault = "none"
    /\ call.cfg.Subject.CommonName = "cn"
    /\ call.cfg.Subject.OrganizationalUnit.elems = <<>>
    /\ err = <<"certification's subject is not set, or invalid">>
    /\ cert = NoCert

\* C6: a certificate issued by the CA has the CA certificate's notBefore,
\* whatever the time of the call, and the time of the call plus the config
\* validity as notAfter.
C6_NotBeforeFromCA ==
    (SignedCall /\ Issued) =>
        /\ cert.NotBefore = call.caCert.NotBefore
        /\ cert.NotAfter = call.at + call.cfg.Validity

\* a certificate issued after the CA certificate's notBefore
C6_Witness ==
    /\ SignedCall /\ Issued
    /\ call.at > call.caCert.NotBefore
    /\ cert.NotBefore = call.caCert.NotBefore

\* C7: the subject key identifier of a CA-signed certificate is the one of
\* the CA certificate's public key, that of a self-signed certificate the one
\* of its own public key.
C7_SubjectKeyId ==
    /\ (SignedCall /\ Issued) =>
            cert.SubjectKeyId = <<"ski", call.caCert.alg, call.caCert.N>>
    /\ (call # NoCall /\ SelfSignedCall /\ Issued) =>
            cert.SubjectKeyId = <<"ski", cert.alg, cert.N>>

\* a CA-signed certificate of a key other than the CA's, carrying the
\* identifier of the CA's key
C7_Witness ==
    /\ SignedCall /\ Issued
    /\ cert.N # call.caCert.N
    /\ cert.SubjectKeyId = <<"ski", "RSA", call.caCert.N>>

\* the messages of the source that name the stage a failing library call
\* belongs to; none names the serial-number draw or the certificate parse
StageMessages(fault) ==
    CASE fault = "rsa.GenerateKey" ->
            {"failed to generate private key", "error generating RSA private key"}
      [] fault = "x509.CreateCertificateRequest" -> {"failed to create certificate request"}
      [] fault = "x509.ParseCertificateRequest" -> {"error parsing x509 certificate request"}
      [] fault = "asn1.Marshal" ->
            {"failed to set subject key identifier", "failed to Marshal ans1 public key"}
      [] fault = "x509.CreateCertificate" ->
            {"failed to create certificate", "failed to create x509 certificate"}
      [] OTHER -> {}

\* C9: a failing step makes the call return an error that names the stage
\* that failed, with no key and no certificate; no failure is swallowed.
C9_FailureNamesStage ==
    call # NoCall =>
        /\ call.fault # "none" => err # <<>>
        /\ err # <<>> =>
            /\ key = NoKey /\ cert = NoCert
            /\ err[Len(err)] \in SignedFaults =>
                  \E i \in 1..(Len(err) - 1) : err[i] \in StageMessages(err[Len(err)])

----------------------------------------------------------------------------
(* Properties of CreateWorkerSecurityGroup (SpecSG).                       *)

SGCalled == sgcall.run > 0

\* the authorize call was made and failed for another reason than the
\* permission being set already
FailedOtherThanDuplicate(answer) ==
    /\ answer \notin {Unused, NilAnswer}
    /\ answer # AwsErr(duplicatePermissionErrorCode)

AuthorizeError ==
    /\ sgout.err # <<>>
    /\ sgout.err[1] \in {"cannot apply security group egress permissions",
                         "cannot apply security group ingress permissions"}

\* C10: the call returns an authorization error, and no group ID, exactly
\* when an authorize call it made failed for another reason than the duplicate
\* permission, whatever the type of the error; a duplicate is ignored and the
\* group ID returned.
C10_AuthorizeFailureReturned ==
    SGCalled =>
        /\ AuthorizeError <=>
              \/ FailedOtherThanDuplicate(sgcall.egress)
              \/ FailedOtherThanDuplicate(sgcall.ingress)
        /\ AuthorizeError => sgout.id = ""
        /\ (/\ sgcall.egress \in {NilAnswer, AwsErr(duplicatePermissionErrorCode)}
            /\ sgcall.ingress \in {NilAnswer, AwsErr(duplicatePermissionErrorCode)})
           => sgout.err = <<>> /\ sgout.id # ""

\* this step is a call of CreateWorkerSecurityGroup
RunSG == sgcall'.run = sgcall.run + 1

Permissions(list) == {list[i] : i \in DOMAIN list}

\* the desired permissions that the group does not hold
Missing(existing, desired) == Permissions(desired) \ Permissions(existing)

\* the permission lists passed to the calls of api that this step made
Passed(api) ==
    {sgout'.calls[i].IpPermissions :
        i \in {j \in DOMAIN sgout'.calls : sgout'.calls[j].api = api}}

\* the call of api, if made, got the missing permissions and no other, each
\* once; no call was made when none is missing
AuthorizesOnlyMissing(api, existing, desired) ==
    /\ \A p \in Passed(api) :
          /\ Permissions(p) = Missing(existing, desired)
          /\ Len(p) = Cardinality(Missing(existing, desired))
          /\ p # <<>>
    /\ Missing(existing, desired) = {} => Passed(api) = {}

Succeeded(answer) == answer \in {NilAnswer, Unused}

\* the last run returned a group ID and every API call it made answered nil
FullySuccessful ==
    /\ SGCalled
    /\ sgout.err = <<>>
    /\ sgcall.list = NilAnswer
    /\ Succeeded(sgcall.create)
    /\ Succeeded(sgcall.egress)
    /\ Succeeded(sgcall.ingress)

OnlyListed ==
    /\ ~Made("CreateSecurityGroup", sgout'.calls)
    /\ ~Made("AuthorizeSecurityGroupEgress", sgout'.calls)
    /\ ~Made("AuthorizeSecurityGroupIngress", sgout'.calls)

\* C11: a run that finds the worker group makes no CreateSecurityGroup call,
\* passes to each authorize call exactly the desired permissions the group
\* does not include, and makes no egress (ingress) authorize call when no
\* desired egress (ingress) permission is missing; so a run that follows a
\* fully successful run, and can list the groups, makes no create and no
\* authorize call, changes nothing in the cloud and returns the same group ID.
C11_Idempotent ==
    [][RunSG =>
        /\ cloud.exists =>
              /\ ~Made("CreateSecurityGroup", sgout'.calls)
              /\ AuthorizesOnlyMissing("AuthorizeSecurityGroupEgress",
                                       cloud.IpPermissionsEgress, egressPermissions)
              /\ AuthorizesOnlyMissing("AuthorizeSecurityGroupIngress",
                                       cloud.IpPermissions,
                                       ingressPermissions(cloud.GroupId, cloud.OwnerId))
        /\ (FullySuccessful /\ sgcall'.list = NilAnswer) =>
              /\ OnlyListed
              /\ sgout'.err = <<>>
              /\ sgout'.id = sgout.id
              /\ cloud' = cloud]_vars

\* a second run on the group that the first run created and authorized: it
\* lists the groups, calls nothing else and returns the ID of that group
C11_Witness ==
    /\ sgcall.run = 2
    /\ sgcall.list = NilAnswer
    /\ sgout.calls = <<ApiCall("DescribeSecurityGroups", <<>>)>>
    /\ sgout.err = <<>>
    /\ sgout.id = "sg-1"
    /\ cloud.IpPermissionsEgress = egressPermissions
    /\ cloud.IpPermissions = ingressPermissions("sg-1", "owner")

====
